---------------------------- MODULE Spec2Model ----------------------------
(***************************************************************************)
(* Model of the WeeWX service WeewxAprx (bin/user/aprx.py, v0.3.0): unit   *)
(* resolution in the constructor, the per-event handler process_packet     *)
(* (calculate, then write_data) and the output file it overwrites.         *)
(*                                                                         *)
(* Numbers.  Observation values are fixed-point integers in hundredths of  *)
(* their unit (68.0 degree_F is 6800, 0.15 inch is 15).  An observation   *)
(* that may be None is a sequence: <<>> for None, <<v>> for the number v.  *)
(* A Python dict is a function whose DOMAIN is the set of keys present.    *)
(* Python int() is truncation toward zero (Trunc).  Text is TLA+ strings,  *)
(* built with \o exactly where the code concatenates or formats.           *)
(*                                                                         *)
(* Library calls.  weewx.units.convert, the store query, int() of a        *)
(* converted value, open() and write() either do what the source uses them *)
(* for or raise; which one is the choice of the environment (env.fault),   *)
(* one fault at most per invocation.  The source hands convert() the       *)
(* result of getStandardUnitType as a unit and formats what convert()      *)
(* returns with int(): a weewx release that returns a (unit, group) pair   *)
(* and a ValueTuple there makes these calls raise on every invocation,     *)
(* which is the behaviour in which the environment picks the "convert" or  *)
(* "format" fault each time.                                               *)
(***************************************************************************)
EXTENDS Integers, Sequences, FiniteSets, TLC

VARIABLES
    phase,      \* "new" before WeewxAprx.__init__, "running" after, "aborted" once an exception reached the engine
    config,     \* the [WeewxAprx] options d and what the engine provides (station position, database unit system)
    self,       \* the attributes of the service object
    file,       \* the content of the output file self.filename
    last        \* the most recent invocation of process_packet: its packet, environment and outcome

vars == <<phase, config, self, file, last>>

\* None, for observation values (a number v is <<v>>) and for option strings
None == <<>>
NoneStr == "<None>"

(***************************************************************************)
(* Python arithmetic and formatting                                        *)
(***************************************************************************)

\* int(a / b) for b > 0: truncation toward zero
Trunc(a, b) == IF a >= 0 THEN a \div b ELSE -((-a) \div b)

Abs(a) == IF a >= 0 THEN a ELSE -a

DigitChar(d) == SubSeq("0123456789", d + 1, d + 1)

RECURSIVE NatToStr(_)
NatToStr(n) == IF n < 10 THEN DigitChar(n) ELSE NatToStr(n \div 10) \o DigitChar(n % 10)

RECURSIVE Zeros(_)
Zeros(k) == IF k <= 0 THEN "" ELSE "0" \o Zeros(k - 1)

\* "%0<width>d" % n: the sign counts toward the width, longer numbers are not cut
FmtZero(width, n) ==
    LET digits == NatToStr(Abs(n))
        sign == IF n < 0 THEN "-" ELSE ""
    IN  sign \o Zeros(width - Len(sign) - Len(digits)) \o digits

\* time.gmtime(ts).tm_mday for ts >= 0 (days since 1970-01-01 to civil date)
DayOfMonth(ts) ==
    LET z == (ts \div 86400) + 719468
        era == z \div 146097
        doe == z - era * 146097
        yoe == (doe - doe \div 1460 + doe \div 36524 - doe \div 146096) \div 365
        doy == doe - (365 * yoe + yoe \div 4 - yoe \div 100)
        mp == (5 * doy + 2) \div 153
    IN  doy - (153 * mp + 2) \div 5 + 1

\* time.strftime("@%d%H%Mz", time.gmtime(ts))
StrfTime(ts) ==
    "@" \o FmtZero(2, DayOfMonth(ts)) \o FmtZero(2, (ts % 86400) \div 3600)
        \o FmtZero(2, (ts % 3600) \div 60) \o "z"

(***************************************************************************)
(* weewx.units: unit systems, unit groups and conversions                  *)
(***************************************************************************)

Groups == {"group_temperature", "group_pressure", "group_speed", "group_rain"}

UNITS_BY_UNIT_GROUP ==
    [group_temperature |-> {"degree_C", "degree_F", "degree_K"},
     group_pressure |-> {"hPa", "kPa", "inHg", "mmHg", "mbar"},
     group_speed |-> {"km_per_hour", "mile_per_hour", "knot", "meter_per_second"},
     group_rain |-> {"mm", "cm", "inch"}]

\* weewx.units.unit_constants: the names of the unit systems
unit_constants == {"US", "METRIC", "METRICWX"}

\* weewx.units.std_groups[unit_system][unit_group]
std_groups ==
    [US |-> [group_temperature |-> "degree_F", group_pressure |-> "inHg",
             group_speed |-> "mile_per_hour", group_rain |-> "inch"],
     METRIC |-> [group_temperature |-> "degree_C", group_pressure |-> "mbar",
                 group_speed |-> "km_per_hour", group_rain |-> "cm"],
     METRICWX |-> [group_temperature |-> "degree_C", group_pressure |-> "mbar",
                   group_speed |-> "meter_per_second", group_rain |-> "mm"]]

\* str.upper() on the unit system names the model enumerates
Upper(s) ==
    CASE s = "us" -> "US"
      [] s = "metric" -> "METRIC"
      [] s = "metricwx" -> "METRICWX"
      [] OTHER -> s

\* weewx.units.getStandardUnitType(unit_system, obs_type): the unit of the obs_type's group
ObsGroup(obs_type) ==
    CASE obs_type = "windSpeed" -> "group_speed"
      [] obs_type = "outTemp" -> "group_temperature"
      [] obs_type = "barometer" -> "group_pressure"
      [] obs_type = "rain" -> "group_rain"

getStandardUnitType(unit_system, obs_type) == std_groups[unit_system][ObsGroup(obs_type)]

\* One unit of `unit` as a ratio <<num, den>> of the group's base unit
\* (meter_per_second, mbar, mm); temperatures are affine and handled apart.
UnitRatio(unit) ==
    CASE unit = "meter_per_second" -> <<1, 1>>
      [] unit = "km_per_hour" -> <<10, 36>>
      [] unit = "mile_per_hour" -> <<44704, 100000>>
      [] unit = "knot" -> <<51444, 100000>>
      [] unit = "mbar" -> <<1, 1>>
      [] unit = "hPa" -> <<1, 1>>
      [] unit = "kPa" -> <<10, 1>>
      [] unit = "inHg" -> <<3386, 100>>
      [] unit = "mmHg" -> <<1333, 1000>>
      [] unit = "mm" -> <<1, 1>>
      [] unit = "cm" -> <<10, 1>>
      [] unit = "inch" -> <<254, 10>>

\* a temperature in hundredths of a degree, to and from degree_C
ToCelsius(v, unit) ==
    CASE unit = "degree_C" -> v
      [] unit = "degree_F" -> Trunc((v - 3200) * 5, 9)
      [] unit = "degree_K" -> v - 27315

FromCelsius(c, unit) ==
    CASE unit = "degree_C" -> c
      [] unit = "degree_F" -> Trunc(c * 9, 5) + 3200
      [] unit = "degree_K" -> c + 27315

\* the conversion function weewx.units.conversionDict[from][to], on hundredths
ConvertValue(v, from, to) ==
    IF from \in UNITS_BY_UNIT_GROUP.group_temperature
    THEN FromCelsius(ToCelsius(v, from), to)
    ELSE LET f == UnitRatio(from)
             t == UnitRatio(to)
             base == Trunc(v * f[1] * 10, f[2])     \* thousandths of the base unit
         IN  Trunc(base * t[2], t[1] * 10)

\* weewx.units.ValueTuple(value, unit, group)
ValueTuple(value, unit, group) == [value |-> value, unit |-> unit, group |-> group]

\* weewx.units.convert(val_t, target_unit): same unit is returned as is, None stays None
units_convert(val_t, target_unit) ==
    IF val_t.unit = target_unit THEN val_t.value
    ELSE IF val_t.value = None THEN None
    ELSE <<ConvertValue(val_t.value[1], val_t.unit, target_unit)>>

\* dict.get(key): None when the key is missing
Get(dict, key) == IF key \in DOMAIN dict THEN dict[key] ELSE None

\* dict.get(key, default) for the option strings
GetStr(dict, key, default) == IF key \in DOMAIN dict THEN dict[key] ELSE default

\* a nullproof that would put 1 in the place of a None (C11 tells the two apart)
nullproof_one(value) == IF value # None THEN value[1] ELSE 100

\* nullproof (line 231): a None becomes 0, a number stays
nullproof(value) == IF value # None THEN value[1] ELSE 0

(***************************************************************************)
(* WeewxAprx.__init__                                                      *)
(***************************************************************************)

\* "%02d%02d.%02d%s" of a station latitude given in 1/10000 degree (lines 255-267)
FormatLat(latitude_f) ==
    LET station_lat_abs == Abs(latitude_f)
        degrees == station_lat_abs \div 10000
        temp == (station_lat_abs % 10000) * 60
        minutes == temp \div 10000
        decimal_minutes == ((temp % 10000) * 100) \div 10000
        hemi == IF latitude_f >= 0 THEN "N" ELSE "S"
    IN  FmtZero(2, degrees) \o FmtZero(2, minutes) \o "." \o FmtZero(2, decimal_minutes) \o hemi

\* "%03d%02d.%02d%s" of a station longitude given in 1/10000 degree (lines 273-285)
FormatLon(longitude_f) ==
    LET station_lon_abs == Abs(longitude_f)
        degrees == station_lon_abs \div 10000
        temp == (station_lon_abs % 10000) * 60
        minutes == temp \div 10000
        decimal_minutes == ((temp % 10000) * 100) \div 10000
        hemi == IF longitude_f >= 0 THEN "E" ELSE "W"
    IN  FmtZero(3, degrees) \o FmtZero(2, minutes) \o "." \o FmtZero(2, decimal_minutes) \o hemi

\* the unit system named by the unit_system option, NoneStr when missing or unknown (lines 311-321)
UnitSystemOf(d) ==
    IF "unit_system" \in DOMAIN d
    THEN IF Upper(d["unit_system"]) \in unit_constants THEN Upper(d["unit_system"]) ELSE NoneStr
    ELSE NoneStr

\* '%s_units' % unit_group.split('_', 1)[1]
GroupKey(unit_group) ==
    CASE unit_group = "group_temperature" -> "temperature_units"
      [] unit_group = "group_pressure" -> "pressure_units"
      [] unit_group = "group_speed" -> "speed_units"
      [] unit_group = "group_rain" -> "rain_units"

\* a resolver that would let the preset win over a per-group option (C9 tells the
\* two apart)
ResolveGroup_presetFirst(d, unit_system, unit_group) ==
    IF unit_system # NoneStr THEN std_groups[unit_system][unit_group]
    ELSE IF GroupKey(unit_group) \in DOMAIN d /\ d[GroupKey(unit_group)] \in UNITS_BY_UNIT_GROUP[unit_group]
         THEN d[GroupKey(unit_group)]
         ELSE NoneStr

\* One pass of the loop of lines 325-344 for unit_group: the unit stored in
\* self.units[unit_group], or NoneStr when the pass stores nothing.
ResolveGroup(d, unit_system, unit_group) ==
    IF GroupKey(unit_group) \in DOMAIN d
    THEN IF d[GroupKey(unit_group)] \in UNITS_BY_UNIT_GROUP[unit_group]
         THEN d[GroupKey(unit_group)]
         ELSE NoneStr                                   \* logerr, nothing stored
    ELSE IF unit_system # NoneStr
         THEN std_groups[unit_system][unit_group]
         ELSE NoneStr                                   \* pass

\* self.units after the loop: a dict holding the groups a pass stored a unit for
ResolveUnits(d) ==
    LET unit_system == UnitSystemOf(d)
        stored == {g \in Groups : ResolveGroup(d, unit_system, g) # NoneStr}
    IN  [g \in stored |-> ResolveGroup(d, unit_system, g)]

\* weeutil.weeutil.tobool on the option strings the model enumerates
tobool(x) == x \in {"True", "true", "1", "yes"}

\* The service object that __init__ builds from the options d and the engine (lines 243-371)
WeewxAprx_init(cfg) ==
    LET d == cfg.d
    IN  [lat |-> IF "lat" \in DOMAIN d THEN d["lat"] ELSE FormatLat(cfg.latitude_f),
         lon |-> IF "lon" \in DOMAIN d THEN d["lon"] ELSE FormatLon(cfg.longitude_f),
         note |-> GetStr(d, "note", ""),
         symbol |-> GetStr(d, "symbol", "/_"),
         filename |-> GetStr(d, "filename", "/var/tmp/aprx_wx.txt"),
         ds_aware |-> tobool(GetStr(d, "daylight_saving_aware", "False")),
         units |-> ResolveUnits(d),
         rain_unit |-> IF cfg.std_unit_system # NoneStr
                       THEN getStandardUnitType(cfg.std_unit_system, "rain")
                       ELSE NoneStr,
         bound |-> IF GetStr(d, "binding", "loop") \in {"loop", "LOOP", "Loop"}
                   THEN "NEW_LOOP_PACKET" ELSE "NEW_ARCHIVE_RECORD"]

(***************************************************************************)
(* Local time (datetime.fromtimestamp, time.mktime, weeutil.startOfDay)    *)
(* for a station ten hours east of UTC whose daylight saving starts 93     *)
(* days and 4 hours after the sample timestamp (2021-10-02T16:00:00Z).     *)
(***************************************************************************)

StdOffset == 10 * 3600
DstStart == 1625140800 + 93 * 86400 + 4 * 3600
DstEnd == DstStart + 182 * 86400

InDst(ts) == DstStart <= ts /\ ts < DstEnd

\* seconds of local wall-clock time since the epoch
fromtimestamp(ts) == ts + StdOffset + (IF InDst(ts) THEN 3600 ELSE 0)

\* time.mktime of a wall-clock time whose tm_isdst is -1
mktime(wall) == IF InDst(wall - StdOffset - 3600) THEN wall - StdOffset - 3600 ELSE wall - StdOffset

\* weeutil.weeutil.startOfDay(ts): the timestamp of the local midnight before ts
startOfDay(ts) == mktime(fromtimestamp(ts) - (fromtimestamp(ts) % 86400))

(***************************************************************************)
(* The historical store                                                    *)
(***************************************************************************)

RECURSIVE SumRain(_)
SumRain(rows) ==
    IF rows = {} THEN 0
    ELSE LET r == CHOOSE x \in rows : TRUE IN r.rain + SumRain(rows \ {r})

\* calc_rain_in_period (lines 545-559) on the archive rows of the store:
\* SELECT SUM(rain) WHERE dateTime > start_ts AND dateTime <= stop_ts, None when no row matches
calc_rain_in_period(rows, start_ts, stop_ts) ==
    LET hit == {r \in rows : r.dateTime > start_ts /\ r.dateTime <= stop_ts}
    IN  IF hit = {} THEN None ELSE <<SumRain(hit)>>

(***************************************************************************)
(* WeewxAprx.calculate                                                     *)
(***************************************************************************)

NoExc == "<no exception>"

Put(dict, key, value) == [k \in DOMAIN dict \cup {key} |-> IF k = key THEN value ELSE dict[k]]

EmptyDict == [k \in {} |-> 0]

\* convert (lines 396-403): self.units[unit_group] raises KeyError for a group
\* __init__ stored no unit for; weewx.units.convert raises when the environment says so
convert(me, env, value_vt) ==
    IF value_vt.group \notin DOMAIN me.units THEN [exc |-> "KeyError", value |-> None]
    ELSE IF env.fault = "convert" THEN [exc |-> "ValueError", value |-> None]
    ELSE [exc |-> NoExc, value |-> units_convert(value_vt, me.units[value_vt.group])]

\* data[key] = nullproof(self.convert(ValueTuple(value, unit, group))), unless an
\* earlier statement has raised
ConvertInto(st, me, env, key, value, unit, group) ==
    IF st.exc # NoExc THEN st
    ELSE LET r == convert(me, env, ValueTuple(value, unit, group))
         IN  IF r.exc # NoExc THEN [st EXCEPT !.exc = r.exc]
             ELSE [st EXCEPT !.data = Put(st.data, key, nullproof(r.value))]

\* the start of the period a missing rain field is summed over (lines 445-455, 468-478, 491)
PeriodStart(me, key, ts) ==
    CASE key = "hourRain" -> IF me.ds_aware THEN mktime(fromtimestamp(ts) - 3600) ELSE ts - 3600
      [] key = "rain24" -> IF me.ds_aware THEN mktime(fromtimestamp(ts) - 86400) ELSE ts - 86400
      [] key = "dayRain" -> startOfDay(ts)

\* a rain step that would ask the store even for a field the packet has (C5 tells
\* the two apart)
RainInto_alwaysQuery(st, me, env, packet, key, rain_unit) ==
    IF st.exc # NoExc THEN st
    ELSE LET start_ts == PeriodStart(me, key, st.data["dateTime"])
             asked == [st EXCEPT !.queries = Append(st.queries,
                          [obs |-> key, start |-> start_ts, stop |-> st.data["dateTime"]])]
         IN  IF env.fault = "store" THEN [asked EXCEPT !.exc = "DatabaseError"]
             ELSE IF key \in DOMAIN packet
                  THEN ConvertInto(asked, me, env, key, packet[key], rain_unit, "group_rain")
                  ELSE IF "rain_units" \notin DOMAIN me THEN [asked EXCEPT !.exc = "AttributeError"]
                  ELSE ConvertInto(asked, me, env, key,
                                   calc_rain_in_period(env.rows, start_ts, st.data["dateTime"]),
                                   me["rain_units"], "group_rain")

\* a rain step that would tag the sum of the store with self.rain_unit, the attribute
\* __init__ sets (C12 tells the two apart)
RainInto_dbRainUnit(st, me, env, packet, key, rain_unit) ==
    IF st.exc # NoExc THEN st
    ELSE IF key \in DOMAIN packet
         THEN ConvertInto(st, me, env, key, packet[key], rain_unit, "group_rain")
         ELSE LET start_ts == PeriodStart(me, key, st.data["dateTime"])
                  asked == [st EXCEPT !.queries = Append(st.queries,
                               [obs |-> key, start |-> start_ts, stop |-> st.data["dateTime"]])]
              IN  IF env.fault = "store" THEN [asked EXCEPT !.exc = "DatabaseError"]
                  ELSE ConvertInto(asked, me, env, key,
                                   calc_rain_in_period(env.rows, start_ts, st.data["dateTime"]),
                                   me.rain_unit, "group_rain")

\* One rain field (lines 439-461, 462-484, 485-497): taken from the packet when the
\* key is there, else summed from the store and tagged with self.rain_units
RainInto(st, me, env, packet, key, rain_unit) ==
    IF st.exc # NoExc THEN st
    ELSE IF key \in DOMAIN packet
         THEN ConvertInto(st, me, env, key, packet[key], rain_unit, "group_rain")
         ELSE LET start_ts == PeriodStart(me, key, st.data["dateTime"])
                  asked == [st EXCEPT !.queries = Append(st.queries,
                               [obs |-> key, start |-> start_ts, stop |-> st.data["dateTime"]])]
              IN  IF env.fault = "store" THEN [asked EXCEPT !.exc = "DatabaseError"]
                  ELSE IF "rain_units" \notin DOMAIN me THEN [asked EXCEPT !.exc = "AttributeError"]
                  ELSE ConvertInto(asked, me, env, key,
                                   calc_rain_in_period(env.rows, start_ts, st.data["dateTime"]),
                                   me["rain_units"], "group_rain")

\* calculate (lines 405-506): [exc, data, queries]; exc is the exception that ended
\* it, NoExc when it returned data
calculate(me, env, packet) ==
    IF "usUnits" \notin DOMAIN packet \/ "dateTime" \notin DOMAIN packet
    THEN [exc |-> "KeyError", data |-> EmptyDict, queries |-> <<>>]
    ELSE
    LET packet_units == packet["usUnits"]
        speed_unit == getStandardUnitType(packet_units, "windSpeed")
        temp_unit == getStandardUnitType(packet_units, "outTemp")
        press_unit == getStandardUnitType(packet_units, "barometer")
        rain_unit == getStandardUnitType(packet_units, "rain")
        s0 == [exc |-> NoExc, queries |-> <<>>,
               data |-> Put(Put(EmptyDict, "dateTime", packet["dateTime"]),
                            "windDir", nullproof(Get(packet, "windDir")))]
        s1 == ConvertInto(s0, me, env, "windSpeed", Get(packet, "windSpeed"), speed_unit, "group_speed")
        s2 == ConvertInto(s1, me, env, "windGust", Get(packet, "windGust"), speed_unit, "group_speed")
        s3 == ConvertInto(s2, me, env, "outTemp", Get(packet, "outTemp"), temp_unit, "group_temperature")
        s4 == RainInto(s3, me, env, packet, "hourRain", rain_unit)
        s5 == RainInto(s4, me, env, packet, "rain24", rain_unit)
        s6 == RainInto(s5, me, env, packet, "dayRain", rain_unit)
        s7 == IF s6.exc # NoExc THEN s6
              ELSE [s6 EXCEPT !.data = Put(s6.data, "outHumidity", nullproof(Get(packet, "outHumidity")))]
    IN  ConvertInto(s7, me, env, "barometer", Get(packet, "barometer"), press_unit, "group_pressure")

(***************************************************************************)
(* WeewxAprx.write_data                                                    *)
(***************************************************************************)

\* a clamp that would let a humidity of exactly 100 through (C10 tells the two apart)
ClampHumidity_above100(h) == IF h < 0 \/ 10000 < h THEN 0 ELSE h

\* the humidity that is formatted (lines 530-531): outside [0, 100) it is set to 0
ClampHumidity(h) == IF h < 0 \/ 10000 <= h THEN 0 ELSE h

\* ''.join(fields) of lines 517-534, for a symbol of two characters
FormatFields(me, data) ==
    me.lat \o SubSeq(me.symbol, 1, 1) \o me.lon \o SubSeq(me.symbol, 2, 2)
        \o FmtZero(3, Trunc(data["windDir"], 100))
        \o "/" \o FmtZero(3, Trunc(data["windSpeed"], 100))
        \o "g" \o FmtZero(3, Trunc(data["windGust"], 100))
        \o "t" \o FmtZero(3, Trunc(data["outTemp"], 100))
        \o "r" \o FmtZero(3, Trunc(data["hourRain"] * 100, 100))
        \o "p" \o FmtZero(3, Trunc(data["rain24"] * 100, 100))
        \o "P" \o FmtZero(3, Trunc(data["dayRain"] * 100, 100))
        \o "h" \o FmtZero(2, Trunc(ClampHumidity(data["outHumidity"]), 100))
        \o "b" \o FmtZero(5, Trunc(data["barometer"] * 10, 100))
        \o " " \o me.note

\* a write_data that would open the file before formatting the fields (the amended
\* C4 tells the two apart)
write_data_openFirst(me, env, data, old) ==
    IF env.fault = "open" THEN [exc |-> "IOError", file |-> old]
    ELSE IF Len(me.symbol) < 2 THEN [exc |-> "IndexError", file |-> ""]
    ELSE IF env.fault = "format" THEN [exc |-> "TypeError", file |-> ""]
    ELSE IF env.fault = "write_ts" THEN [exc |-> "IOError", file |-> ""]
    ELSE IF env.fault = "write_fields" THEN [exc |-> "IOError", file |-> StrfTime(data["dateTime"])]
    ELSE IF env.fault = "write_nl"
         THEN [exc |-> "IOError", file |-> StrfTime(data["dateTime"]) \o FormatFields(me, data)]
    ELSE [exc |-> NoExc, file |-> StrfTime(data["dateTime"]) \o FormatFields(me, data) \o "\n"]

\* write_data (lines 508-543): [exc, file], the file as it is left.  The fields are
\* formatted first; open(filename, 'w') empties the file; then come three writes.
write_data(me, env, data, old) ==
    IF Len(me.symbol) < 2 THEN [exc |-> "IndexError", file |-> old]
    ELSE IF env.fault = "format" THEN [exc |-> "TypeError", file |-> old]
    ELSE IF env.fault = "open" THEN [exc |-> "IOError", file |-> old]
    ELSE IF env.fault = "write_ts" THEN [exc |-> "IOError", file |-> ""]
    ELSE IF env.fault = "write_fields" THEN [exc |-> "IOError", file |-> StrfTime(data["dateTime"])]
    ELSE IF env.fault = "write_nl"
         THEN [exc |-> "IOError", file |-> StrfTime(data["dateTime"]) \o FormatFields(me, data)]
    ELSE [exc |-> NoExc, file |-> StrfTime(data["dateTime"]) \o FormatFields(me, data) \o "\n"]

(***************************************************************************)
(* WeewxAprx.process_packet                                                *)
(***************************************************************************)

\* the exceptions the model raises; each is a subclass of Exception
ExceptionClasses ==
    {"KeyError", "AttributeError", "TypeError", "ValueError", "IndexError", "IOError", "DatabaseError"}

\* a handler that would catch KeyError only (C3 tells the two apart)
Caught_keyErrorOnly(exc) == exc = "KeyError"

\* "except Exception" (line 392)
Caught(exc) == exc \in ExceptionClasses

\* a process_packet that would empty the file when calculate() raised (C2 tells the
\* two apart)
process_packet_writeAnyway(me, env, packet, old) ==
    LET c == calculate(me, env, packet)
        w == write_data(me, env, c.data, old)
    IN  IF c.exc # NoExc
        THEN [stage |-> "calculate", exc |-> c.exc, returned |-> Caught(c.exc),
              queries |-> c.queries, data |-> c.data, file |-> "",
              self |-> me, packet |-> packet]
        ELSE [stage |-> IF w.exc # NoExc THEN "write" ELSE "done", exc |-> w.exc,
              returned |-> w.exc = NoExc \/ Caught(w.exc),
              queries |-> c.queries, data |-> c.data, file |-> w.file,
              self |-> me, packet |-> packet]

\* a process_packet whose calculate would fill the record itself instead of a dict
\* of its own (C15 tells the two apart)
process_packet_fillsRecord(me, env, packet, old) ==
    LET c == calculate(me, env, packet)
        w == write_data(me, env, c.data, old)
        filled == [k \in DOMAIN packet \cup DOMAIN c.data |->
                      IF k \in DOMAIN c.data \ {"dateTime"} THEN <<c.data[k]>> ELSE packet[k]]
    IN  IF c.exc # NoExc
        THEN [stage |-> "calculate", exc |-> c.exc, returned |-> Caught(c.exc),
              queries |-> c.queries, data |-> c.data, file |-> old,
              self |-> me, packet |-> filled]
        ELSE [stage |-> IF w.exc # NoExc THEN "write" ELSE "done", exc |-> w.exc,
              returned |-> w.exc = NoExc \/ Caught(w.exc),
              queries |-> c.queries, data |-> c.data, file |-> w.file,
              self |-> me, packet |-> filled]

\* process_packet (lines 383-394): what the invocation leaves behind.  stage is
\* "calculate" or "write" when that call raised and "done" when both returned;
\* returned is FALSE when the exception left process_packet.  self and packet are
\* the service object and the record as the invocation leaves them: calculate
\* fills a dict of its own (line 416) and nothing is assigned to either.
process_packet(me, env, packet, old) ==
    LET c == calculate(me, env, packet)
        w == write_data(me, env, c.data, old)
    IN  IF c.exc # NoExc
        THEN [stage |-> "calculate", exc |-> c.exc, returned |-> Caught(c.exc),
              queries |-> c.queries, data |-> c.data, file |-> old,
              self |-> me, packet |-> packet]
        ELSE [stage |-> IF w.exc # NoExc THEN "write" ELSE "done", exc |-> w.exc,
              returned |-> w.exc = NoExc \/ Caught(w.exc),
              queries |-> c.queries, data |-> c.data, file |-> w.file,
              self |-> me, packet |-> packet]

(***************************************************************************)
(* Inputs: configurations, observation records, environments               *)
(***************************************************************************)

\* a dict without the keys whose value is NoneStr
Prune(dict) == [k \in {x \in DOMAIN dict : dict[x] # NoneStr} |-> dict[k]]

\* the options of [WeewxAprx] plus what the engine hands to __init__: the station
\* position in 1/10000 degree and the unit system of the bound database
MkConfig(d) ==
    [d |-> Prune(d), latitude_f |-> -338250, longitude_f |-> 1512057, std_unit_system |-> "US"]

Options(unit_system, temperature_units, pressure_units, speed_units, rain_units, binding, ds) ==
    [lat |-> "3349.50S", note |-> "Test", unit_system |-> unit_system,
     temperature_units |-> temperature_units, pressure_units |-> pressure_units,
     speed_units |-> speed_units, rain_units |-> rain_units,
     binding |-> binding, daylight_saving_aware |-> ds]

\* the configurations the service is run with
RunConfigs ==
    {MkConfig(Options(NoneStr, NoneStr, NoneStr, NoneStr, NoneStr, NoneStr, NoneStr)),
     MkConfig(Options("US", NoneStr, NoneStr, NoneStr, NoneStr, NoneStr, NoneStr)),
     MkConfig(Options("METRICWX", NoneStr, NoneStr, NoneStr, NoneStr, NoneStr, "True")),
     MkConfig(Options("metric", NoneStr, NoneStr, NoneStr, "inch", NoneStr, NoneStr)),
     MkConfig(Options("METRIC", NoneStr, NoneStr, NoneStr, "furlong", NoneStr, NoneStr)),
     MkConfig(Options(NoneStr, "degree_C", "hPa", "knot", "mm", "archive", NoneStr))}

\* the configurations unit resolution is checked on: every unit_system choice with,
\* per group, no option, a valid unit or a unit the group does not have
InitConfigs ==
    {MkConfig(Options(us, t, p, sp, r, NoneStr, NoneStr)) :
        us \in {NoneStr, "US", "METRIC", "METRICWX", "metric", "SI"},
        t \in {NoneStr, "degree_K", "inch"},
        p \in {NoneStr, "hPa", "inch"},
        sp \in {NoneStr, "knot", "mph"},
        r \in {NoneStr, "inch", "furlong"}}

RainKeys == {"hourRain", "rain24", "dayRain"}

\* a record of a station reporting in US units and one reporting in METRICWX
\* units; the values are ones whose conversions come out the same in floating
\* point and in hundredths
FullPacket(usUnits) ==
    IF usUnits = "US"
    THEN [dateTime |-> 1625140800, usUnits |-> "US", windDir |-> <<27000>>, windSpeed |-> <<500>>,
          outTemp |-> <<6800>>, outHumidity |-> <<5500>>, barometer |-> <<2992>>,
          hourRain |-> <<5>>, rain24 |-> <<25>>, dayRain |-> <<16>>]
    ELSE [dateTime |-> 1625140800, usUnits |-> "METRICWX", windDir |-> <<9000>>, windSpeed |-> <<250>>,
          windGust |-> None, outTemp |-> <<-550>>, outHumidity |-> <<5500>>, barometer |-> <<101320>>,
          hourRain |-> <<120>>, rain24 |-> <<640>>, dayRain |-> <<380>>]

Without(dict, keys) == [k \in DOMAIN dict \ keys |-> dict[k]]

\* humidities in hundredths of a percent: -0.5, 0, 5, 99.5, 100, 101
HumValues == {-50, 0, 500, 9950, 10000, 10100}

\* records with every combination of the three rain accumulators, and records
\* without dateTime or usUnits
Packets ==
    {Without(FullPacket("US"), missing) : missing \in SUBSET RainKeys}
    \cup {FullPacket("METRICWX"), Without(FullPacket("METRICWX"), RainKeys)}
    \cup {Without(FullPacket("US"), {"dateTime"}), Without(FullPacket("US"), {"usUnits"})}

\* records that differ in their humidity only: a number, None, or no outHumidity
HumPackets ==
    {[FullPacket("US") EXCEPT !["outHumidity"] = <<h>>] : h \in HumValues}
    \cup {[FullPacket("US") EXCEPT !["outHumidity"] = None], Without(FullPacket("US"), {"outHumidity"}),
          FullPacket("METRICWX")}

\* the fields calculate reads with packet.get and passes through nullproof
NullableFields == {"windDir", "windSpeed", "windGust", "outTemp", "outHumidity", "barometer"}

\* a record with all of them, and the records that lack one or hold None for one
GustPacket == [k \in DOMAIN FullPacket("US") \cup {"windGust"} |->
                  IF k = "windGust" THEN <<800>> ELSE FullPacket("US")[k]]

NullPackets ==
    {GustPacket}
    \cup {Without(GustPacket, {f}) : f \in NullableFields}
    \cup {[GustPacket EXCEPT ![f] = None] : f \in NullableFields}

\* rain accumulators in hundredths of the record's unit: 0, 9.99, 10.00, 12.50
RainValues == {0, 999, 1000, 1250}

\* records that differ in one rain accumulator only
RainPackets ==
    {[FullPacket(u) EXCEPT ![key] = <<v>>] : u \in {"US", "METRICWX"}, key \in RainKeys, v \in RainValues}

Faults == {"none", "store", "convert", "format", "open", "write_ts", "write_fields", "write_nl"}

\* archive rows the store may hold when it is queried
MaxRows == 1

SampleRows == {[dateTime |-> 1625140800 - 1800, rain |-> 2], [dateTime |-> 1625140800 - 7200, rain |-> 3]}

Stores == {rows \in SUBSET SampleRows : Cardinality(rows) <= MaxRows}

\* what the environment decides for one invocation: the call that raises, if any,
\* and the rows of the store
Envs == {[fault |-> f, rows |-> {}] : f \in Faults \ {"none"}} \cup {[fault |-> "none", rows |-> r] : r \in Stores}

\* the environments of the humidity runs: no fault, or a failing file
HumEnvs == {[fault |-> f, rows |-> {}] : f \in {"none", "open"}}

\* the environments of the runs on NullPackets: no fault, or a failing int()
NullEnvs == {[fault |-> f, rows |-> {}] : f \in {"none", "format"}}

(***************************************************************************)
(* The state machine                                                       *)
(***************************************************************************)

NoSelf == [units |-> EmptyDict]

NoInvocation ==
    [event |-> "none", packet |-> EmptyDict, env |-> [fault |-> "none", rows |-> {}],
     stage |-> "none", exc |-> NoExc, returned |-> TRUE, queries |-> <<>>, data |-> EmptyDict,
     packet_after |-> EmptyDict]

\* the service as constructed, before the first event
Init ==
    /\ phase = "running"
    /\ config \in RunConfigs
    /\ self = WeewxAprx_init(config)
    /\ file = ""
    /\ last = NoInvocation

\* the engine dispatches an event the service is bound to; an exception that
\* leaves the handler ends the engine's loop
Dispatch(event, packet, env) ==
    /\ phase = "running"
    /\ self.bound = event
    /\ \E r \in {process_packet(self, env, packet, file)} :
           /\ file' = r.file
           /\ last' = [event |-> event, packet |-> packet, env |-> env, stage |-> r.stage,
                       exc |-> r.exc, returned |-> r.returned, queries |-> r.queries, data |-> r.data,
                       packet_after |-> r.packet]
           /\ self' = r.self
           /\ phase' = IF r.returned THEN "running" ELSE "aborted"
    /\ UNCHANGED config

\* process_loop_packet (lines 373-376), for a NEW_LOOP_PACKET event
process_loop_packet(packets, envs) ==
    \E packet \in packets, env \in envs : Dispatch("NEW_LOOP_PACKET", packet, env)

\* process_archive_record (lines 378-381), for a NEW_ARCHIVE_RECORD event
process_archive_record(packets, envs) ==
    \E packet \in packets, env \in envs : Dispatch("NEW_ARCHIVE_RECORD", packet, env)

Next == process_loop_packet(Packets, Envs) \/ process_archive_record(Packets, Envs)

Spec == Init /\ [][Next]_vars

\* the same service fed the records of HumPackets
NextHum == process_loop_packet(HumPackets, HumEnvs) \/ process_archive_record(HumPackets, HumEnvs)

SpecHum == Init /\ [][NextHum]_vars

\* Unit resolution on its own: the constructor applied to every configuration of InitConfigs
NextNull == process_loop_packet(NullPackets, NullEnvs) \/ process_archive_record(NullPackets, NullEnvs)

SpecNull == Init /\ [][NextNull]_vars

NextRain == process_loop_packet(RainPackets, HumEnvs) \/ process_archive_record(RainPackets, HumEnvs)

SpecRain == Init /\ [][NextRain]_vars

InitNew ==
    /\ phase = "new"
    /\ config \in InitConfigs
    /\ self = NoSelf
    /\ file = ""
    /\ last = NoInvocation

Construct ==
    /\ phase = "new"
    /\ phase' = "running"
    /\ self' = WeewxAprx_init(config)
    /\ UNCHANGED <<config, file, last>>

NextInit == Construct

SpecInit == InitNew /\ [][NextInit]_vars

(***************************************************************************)
(* Claims                                                                  *)
(***************************************************************************)

Invoked == last.stage # "none"

WellFormed(packet) == {"dateTime", "usUnits"} \subseteq DOMAIN packet

Failed(inv) == inv.stage \in {"calculate", "write"}

WriteFaults == {"write_ts", "write_fields", "write_nl"}

\* exactly one line, ended by its newline
OneLine(text) ==
    /\ Len(text) > 0
    /\ SubSeq(text, Len(text), Len(text)) = "\n"
    /\ \A i \in 1..(Len(text) - 1) : SubSeq(text, i, i) # "\n"

\* the line write_data builds from the data of the last invocation
LastLine == StrfTime(last.data["dateTime"]) \o FormatFields(self, last.data) \o "\n"

\* where the wind direction starts in a line: after @DDHHMMz, lat, sym0, lon, sym1
DirPos == 8 + Len(self.lat) + 1 + Len(self.lon) + 1 + 1

\* the place of a prefixed field in a line whose earlier fields have their nominal width
FieldPos(letter) ==
    CASE letter = "r" -> DirPos + 3 + 4 + 4 + 4
      [] letter = "p" -> DirPos + 3 + 4 + 4 + 4 + 4
      [] letter = "P" -> DirPos + 3 + 4 + 4 + 4 + 4 + 4
      [] letter = "h" -> DirPos + 3 + 4 + 4 + 4 + 4 + 4 + 4

RainLetter(key) ==
    CASE key = "hourRain" -> "r" [] key = "rain24" -> "p" [] key = "dayRain" -> "P"

\* the four characters of a rain field of the file: its letter and three digits
RainField(key) == SubSeq(file, FieldPos(RainLetter(key)), FieldPos(RainLetter(key)) + 3)

ThreeDigits(n) == DigitChar(n \div 100) \o DigitChar((n \div 10) % 10) \o DigitChar(n % 10)

TwoDigits(n) == DigitChar(n \div 10) \o DigitChar(n % 10)

Queried(key) == \E i \in 1..Len(last.queries) : last.queries[i].obs = key

\* C1 (as claimed): after process_packet has handled a well-formed record with the
\* store reachable and the file writable, the file is exactly one newline-terminated
\* line, the one encoded from that record.
C1_FileIsLineOfLastRecord ==
    (Invoked /\ WellFormed(last.packet) /\ last.env.fault = "none")
        => (last.stage = "done" /\ OneLine(file) /\ file = LastLine)

\* C2: a step in which calculate() raised leaves the output file as it was, leaves
\* the service object and its configuration as they were and leaves the engine
\* running, so the next event is handled as if that invocation had not happened.
C2_CalcErrorWritesNothing ==
    [][last'.stage = "calculate"
          => (file' = file /\ self' = self /\ config' = config /\ phase' = "running")]_vars

C2_Witness == last.stage = "calculate" /\ last.exc = "DatabaseError" /\ OneLine(file)

\* C3: whatever fails inside calculate() or write_data(), the handler returns to the
\* engine: no exception leaves process_packet and the engine keeps running.
C3_NoExceptionEscapes == (Failed(last) => last.returned) /\ phase = "running"

C3_Witness ==
    /\ last.event = "NEW_ARCHIVE_RECORD" /\ last.stage = "write" /\ last.exc = "IOError"
    /\ last.returned /\ phase = "running"

\* C4 (as claimed): every failed cycle, a failed write after the open included,
\* leaves the output file byte for byte as it was.
C4_FailedCycleKeepsFile == [][Failed(last') => file' = file]_vars

\* C4 (amended): a cycle that fails before the file is opened (in calculate(), in
\* formatting the fields, or in open() itself) leaves the file as it was; a cycle
\* whose write fails after the open leaves a proper prefix of the new line.
C4_FailedCycleAmended ==
    [][/\ (last'.stage = "calculate" \/ (last'.stage = "write" /\ last'.env.fault \notin WriteFaults))
            => file' = file
       /\ (last'.stage = "write" /\ last'.env.fault \in WriteFaults)
            => (/\ Len(file') < Len(LastLine')
                /\ file' = SubSeq(LastLine', 1, Len(file')))]_vars

C4_Witness ==
    /\ last.stage = "write" /\ last.env.fault = "write_fields"
    /\ file = StrfTime(last.data["dateTime"])

\* C5: a rain field that is on the record is never asked of the store; when
\* calculate() returns, its value is the record's value converted from the record's
\* rain unit to the resolved one, and that is what the written line encodes; a
\* record with all three fields causes no store query at all.
C5_PresentRainNotQueried ==
    Invoked =>
        /\ \A key \in RainKeys \cap DOMAIN last.packet :
              /\ ~Queried(key)
              /\ (last.stage \in {"write", "done"}) =>
                    last.data[key] =
                        IF std_groups[last.packet["usUnits"]]["group_rain"] = self.units["group_rain"]
                        THEN last.packet[key][1]
                        ELSE ConvertValue(last.packet[key][1],
                                          std_groups[last.packet["usUnits"]]["group_rain"],
                                          self.units["group_rain"])
              /\ last.stage = "done" => RainField(key) = RainLetter(key) \o ThreeDigits(last.data[key])
        /\ RainKeys \subseteq DOMAIN last.packet => last.queries = <<>>

C5_Witness ==
    /\ last.stage = "done" /\ last.packet["usUnits"] = "US" /\ self.units["group_rain"] = "mm"
    /\ RainKeys \subseteq DOMAIN last.packet /\ last.queries = <<>>
    /\ RainField("dayRain") = "P406"

\* C6 (as claimed): a rain field missing from a well-formed record is asked of the
\* store once, and with a store that has no matching row the invocation completes
\* and the line carries 000 for that field.
C6_MissingRainIsZero ==
    (Invoked /\ WellFormed(last.packet) /\ last.env.fault = "none" /\ last.env.rows = {}
        /\ Groups \subseteq DOMAIN self.units)
        => \A key \in RainKeys \ DOMAIN last.packet :
              /\ Cardinality({i \in 1..Len(last.queries) : last.queries[i].obs = key}) = 1
              /\ last.stage = "done"
              /\ RainField(key) = RainLetter(key) \o "000"

\* C7 (as claimed): with a group left unresolved by __init__, every invocation on a
\* well-formed record still completes (conversion for that group is a no-op).
C7_UnresolvedGroupCompletes ==
    (Invoked /\ WellFormed(last.packet) /\ last.env.fault = "none"
        /\ RainKeys \subseteq DOMAIN last.packet /\ ~(Groups \subseteq DOMAIN self.units))
        => last.stage = "done"

\* C8 (as claimed): a per-group option that is not a unit of its group is treated as
\* absent, so with a recognised unit_system the group gets the preset's unit.
C8_InvalidOptionFallsThrough ==
    phase = "running" =>
        \A g \in Groups :
            (/\ GroupKey(g) \in DOMAIN config.d
             /\ config.d[GroupKey(g)] \notin UNITS_BY_UNIT_GROUP[g]
             /\ "unit_system" \in DOMAIN config.d
             /\ Upper(config.d["unit_system"]) \in unit_constants)
                => (/\ g \in DOMAIN self.units
                    /\ self.units[g] = std_groups[Upper(config.d["unit_system"])][g])

\* C9: with a recognised unit_system, a group without an option of its own has the
\* preset's unit and a group with a valid option has that option's unit, whatever
\* the options of the other groups are.
C9_Precedence ==
    (/\ phase = "running"
     /\ "unit_system" \in DOMAIN config.d
     /\ Upper(config.d["unit_system"]) \in unit_constants)
        => \A g \in Groups :
              /\ GroupKey(g) \notin DOMAIN config.d
                    => (/\ g \in DOMAIN self.units
                        /\ self.units[g] = std_groups[Upper(config.d["unit_system"])][g])
              /\ (GroupKey(g) \in DOMAIN config.d /\ config.d[GroupKey(g)] \in UNITS_BY_UNIT_GROUP[g])
                    => (g \in DOMAIN self.units /\ self.units[g] = config.d[GroupKey(g)])

C9_Witness ==
    /\ phase = "running"
    /\ "unit_system" \in DOMAIN config.d /\ config.d["unit_system"] = "METRIC"
    /\ {k \in DOMAIN config.d : k \in {GroupKey(g) : g \in Groups}} = {"rain_units"}
    /\ config.d["rain_units"] = "inch"
    /\ self.units = [group_temperature |-> "degree_C", group_pressure |-> "mbar",
                     group_speed |-> "km_per_hour", group_rain |-> "inch"]

\* C10: in a written line the humidity field is h and two digits of a number in
\* 0..99: the integer part of the record's humidity when that is in [0, 100), and
\* 00 when it is below 0, 100 or more, None or missing.
C10_HumidityField ==
    last.stage = "done" =>
        LET h == IF "outHumidity" \in DOMAIN last.packet /\ last.packet["outHumidity"] # None
                 THEN last.packet["outHumidity"][1] ELSE 0
            at == FieldPos("h")
        IN  /\ SubSeq(file, at, at) = "h"
            /\ SubSeq(file, at + 3, at + 3) = "b"
            /\ \E n \in 0..99 :
                  /\ SubSeq(file, at + 1, at + 2) = TwoDigits(n)
                  /\ (h < 0 \/ h >= 10000) => n = 0
                  /\ (0 <= h /\ h < 10000) => n = h \div 100

C10_Witness ==
    /\ last.stage = "done"
    /\ "outHumidity" \in DOMAIN last.packet /\ last.packet["outHumidity"] = <<10000>>
    /\ SubSeq(file, FieldPos("h"), FieldPos("h") + 2) = "h00"

\* a value of the record's unit that the conversion to the resolved unit sends to 0
\* (0 for every unit but a temperature: 32 F is 0 C)
ZeroPreimages == {0, 3200}

\* C11: when a line is written for a record in which one of windDir, windSpeed,
\* windGust, outTemp, outHumidity, barometer is absent or None, the value formatted
\* for that field is 0 and the line is the one written for the same record carrying,
\* for that field, a value whose conversion to the resolved unit is 0.
C11_MissingFieldIsZero ==
    last.stage = "done" =>
        \A f \in NullableFields :
            (f \notin DOMAIN last.packet \/ last.packet[f] = None) =>
                /\ last.data[f] = 0
                /\ \E z \in ZeroPreimages :
                      \E r \in {process_packet(self, last.env, Put(last.packet, f, <<z>>), "")} :
                          r.stage = "done" /\ r.data[f] = 0 /\ r.file = file

C11_Witness ==
    /\ last.stage = "done" /\ "outTemp" \in DOMAIN last.packet /\ last.packet["outTemp"] = None
    /\ self.units["group_temperature"] = "degree_C"
    /\ SubSeq(file, DirPos + 3 + 4 + 4, DirPos + 3 + 4 + 4 + 3) = "t000"

KeptDigits(n) ==
    IF n < 1000 THEN {ThreeDigits(n)}
    ELSE {ThreeDigits(n % 1000), SubSeq(NatToStr(n), 1, 3)}

\* C13 (as claimed): in a written line each of the r/p/P fields is its letter and
\* exactly three digits, int(r*100) zero-padded below 10.00 and cut or wrapped to
\* three digits from 10.00 on, so the humidity field that follows stays in its place.
C13_RainFieldThreeDigits ==
    last.stage = "done" =>
        /\ \A key \in RainKeys :
              last.data[key] >= 0 =>
                  \E digits \in KeptDigits(last.data[key]) : RainField(key) = RainLetter(key) \o digits
        /\ SubSeq(file, FieldPos("h"), FieldPos("h")) = "h"

\* the start the claim gives for the period of a rain field: flat subtraction for
\* the last hour and the last 24 hours when daylight_saving_aware is off, the local
\* midnight of the record's day for the day's rain whatever the flag
ClaimedStarts(key, ts) ==
    CASE key = "dayRain" -> {startOfDay(ts)}
      [] key = "hourRain" -> IF self.ds_aware THEN {ts - 3600, ts - 7200, ts} ELSE {ts - 3600}
      [] key = "rain24" -> IF self.ds_aware THEN {ts - 86400, ts - 90000, ts - 82800} ELSE {ts - 86400}

\* C14 (as claimed): for a well-formed record, each rain accumulator the record lacks
\* is asked of the store over (start, ts] with the start of its period.
C14_QueryWindows ==
    (Invoked /\ WellFormed(last.packet) /\ last.env.fault = "none" /\ Groups \subseteq DOMAIN self.units)
        => \A key \in RainKeys \ DOMAIN last.packet :
              \E i \in 1..Len(last.queries) :
                  /\ last.queries[i].obs = key
                  /\ last.queries[i].stop = last.packet["dateTime"]
                  /\ last.queries[i].start \in ClaimedStarts(key, last.packet["dateTime"])

\* C15: after any sequence of events, completed or failed, the service object is
\* the one __init__ built from the configuration (units, lat, lon, symbol, note,
\* filename, ds_aware), and the record of the last invocation is as it was handed in.
C15_Frame ==
    /\ self = WeewxAprx_init(config)
    /\ Invoked => last.packet_after = last.packet

C15_Witness ==
    /\ last.stage = "calculate" /\ last.exc = "AttributeError" /\ OneLine(file)
    /\ self = WeewxAprx_init(config) /\ last.packet_after = last.packet

=============================================================================
